---------------------------- MODULE Spec2Model ----------------------------
(***************************************************************************)
(* netlog (CERN-CERT): the probe registry and the hook callbacks of        *)
(* src/src/netlog/probes.c.                                                *)
(*                                                                         *)
(* A probe mask (u32) is modelled as the set of its set bit positions, so  *)
(* `&` is intersection, `|` union, `^` symmetric difference and `~` the    *)
(* complement within the modelled width.  The registry handlers run under  *)
(* probe_lock; each is modelled as a lock acquisition followed by one step *)
(* per write of loaded_probes and per call into the instrumentation        *)
(* subsystem, so that readers that do not take the lock (pre_sys_close)    *)
(* can observe the intermediate states.                                    *)
(***************************************************************************)
EXTENDS Integers, Sequences, FiniteSets, TLC

\* Number of administrative threads that call the handlers concurrently.
NumAdmins == 2
\* Number of mask bits modelled beyond the six probe kinds.
ExtraBits == 1

Admins == 1..NumAdmins

(***************************************************************************)
(* Probe kinds (bit positions) and masks                                   *)
(***************************************************************************)
PROBE_TCP_CONNECT == 0
PROBE_TCP_ACCEPT == 1
PROBE_TCP_CLOSE == 2
PROBE_UDP_CONNECT == 3
PROBE_UDP_BIND == 4
PROBE_UDP_CLOSE == 5

Kinds == {PROBE_TCP_CONNECT, PROBE_TCP_ACCEPT, PROBE_TCP_CLOSE,
          PROBE_UDP_CONNECT, PROBE_UDP_BIND, PROBE_UDP_CLOSE}
AllBits == 0..(PROBE_UDP_CLOSE + ExtraBits)
Masks == SUBSET AllBits
\* The masks over the six probe kinds.
KindMasks == SUBSET Kinds

\* 1 << k
Bit(k) == {k}
\* Faulty variant: `|=` in place of `^=`.
XorAsOr(a, b) == a \cup b

\* a ^ b
Xor(a, b) == (a \ b) \cup (b \ a)
\* ~a
Not(a) == AllBits \ a

CloseBits == Bit(PROBE_TCP_CLOSE) \cup Bit(PROBE_UDP_CLOSE)

\* The table of the per-probe module parameters: name and mask.
probe_list ==
    << [name |-> "tcp_connect", mask |-> Bit(PROBE_TCP_CONNECT)],
       [name |-> "tcp_accept",  mask |-> Bit(PROBE_TCP_ACCEPT)],
       [name |-> "tcp_close",   mask |-> Bit(PROBE_TCP_CLOSE)],
       [name |-> "udp_connect", mask |-> Bit(PROBE_UDP_CONNECT)],
       [name |-> "udp_bind",    mask |-> Bit(PROBE_UDP_BIND)],
       [name |-> "udp_close",   mask |-> Bit(PROBE_UDP_CLOSE)] >>

\* The mask planted on first use, and the error tags plant_probes returns
\* (negated).
DEFAULT_PROBES == Kinds
CONNECT_PROBE_FAILED == 1
ACCEPT_PROBE_FAILED == 2
CLOSE_PROBE_FAILED == 3
BIND_PROBE_FAILED == 4

(***************************************************************************)
(* The physical interception points                                        *)
(***************************************************************************)
stream_connect_kretprobe == "stream_connect_kretprobe"
dgram_connect_kretprobe == "dgram_connect_kretprobe"
accept_kretprobe == "accept_kretprobe"
close_jprobe == "close_jprobe"
bind_kretprobe == "bind_kretprobe"

Points == {stream_connect_kretprobe, dgram_connect_kretprobe, accept_kretprobe,
           close_jprobe, bind_kretprobe}

\* What a plant primitive can return: 0, or a negative errno.
PlantResults == {0, -1}

\* The instrumentation subsystem: the set of planted points after a plant
\* that returned err, and after an unplant.
plant_kretprobe(point, installed, err) ==
    IF err = 0 THEN installed \cup {point} ELSE installed

unplant_kretprobe(point, installed) == installed \ {point}

VARIABLES
    initialized,    \* static u8 initialized
    loaded_probes,  \* static u32 loaded_probes
    probe_lock,     \* the spinlock: TRUE when held
    planted,        \* the points the instrumentation subsystem has installed
    adm,            \* per administrative thread: its position and locals
    calls,          \* the plant/unplant calls of the operation that holds
                    \* the lock, each with the point's state (was) and
                    \* loaded_probes (mask) at the time of the call
    pre,            \* loaded_probes and planted in the last state in which
                    \* the lock was free
    fresh,          \* no handler has finished yet
    fire            \* the hook invocation in flight: its position, what it
                    \* read, and what it handed to the whitelist gate and
                    \* to the log sink

vars == <<initialized, loaded_probes, probe_lock, planted, adm, calls, pre,
          fresh, fire>>

regvars == <<initialized, loaded_probes, probe_lock, planted, adm, calls, pre,
             fresh>>

(***************************************************************************)
(* unplant_probes: line 341, then the five unplant calls in source order   *)
(***************************************************************************)
\* Faulty variant: unplant_probes has no block for the accept probe.
UnplantOrderNoAccept ==
    << [bits |-> Bit(PROBE_TCP_CONNECT), point |-> stream_connect_kretprobe],
       [bits |-> {},                     point |-> accept_kretprobe],
       [bits |-> CloseBits,              point |-> close_jprobe],
       [bits |-> Bit(PROBE_UDP_CONNECT), point |-> dgram_connect_kretprobe],
       [bits |-> Bit(PROBE_UDP_BIND),    point |-> bind_kretprobe] >>

UnplantOrder ==
    << [bits |-> Bit(PROBE_TCP_CONNECT), point |-> stream_connect_kretprobe],
       [bits |-> Bit(PROBE_TCP_ACCEPT),  point |-> accept_kretprobe],
       [bits |-> CloseBits,              point |-> close_jprobe],
       [bits |-> Bit(PROBE_UDP_CONNECT), point |-> dgram_connect_kretprobe],
       [bits |-> Bit(PROBE_UDP_BIND),    point |-> bind_kretprobe] >>

UnplantEnd == Len(UnplantOrder) + 1

\* Faulty variant: the shared close hook is unplanted without looking at the
\* sibling bit.
UnplantCondNoSibling(u, removed_probes, loaded) ==
    (removed_probes \cap UnplantOrder[u].bits) # {}

\* The condition guarding the u-th unplant call; loaded is loaded_probes
\* after line 341.
UnplantCond(u, removed_probes, loaded) ==
    /\ (removed_probes \cap UnplantOrder[u].bits) # {}
    /\ (UnplantOrder[u].point = close_jprobe => (loaded \cap CloseBits) = {})

\* The first unplant call at or after position u that is executed.
NextUnplant(u, removed_probes, loaded) ==
    LET S == {j \in u..Len(UnplantOrder) : UnplantCond(j, removed_probes, loaded)}
    IN  IF S = {} THEN UnplantEnd ELSE CHOOSE j \in S : \A k \in S : j <= k

(***************************************************************************)
(* plant_probes: the six blocks in source order                            *)
(***************************************************************************)
\* Faulty variant: the datagram connect block returns the bind tag.
PlantOrderWrongTag ==
    << [bit |-> PROBE_TCP_CONNECT, point |-> stream_connect_kretprobe,
        fail |-> CONNECT_PROBE_FAILED],
       [bit |-> PROBE_TCP_ACCEPT,  point |-> accept_kretprobe,
        fail |-> ACCEPT_PROBE_FAILED],
       [bit |-> PROBE_TCP_CLOSE,   point |-> close_jprobe,
        fail |-> CLOSE_PROBE_FAILED],
       [bit |-> PROBE_UDP_CONNECT, point |-> dgram_connect_kretprobe,
        fail |-> BIND_PROBE_FAILED],
       [bit |-> PROBE_UDP_BIND,    point |-> bind_kretprobe,
        fail |-> BIND_PROBE_FAILED],
       [bit |-> PROBE_UDP_CLOSE,   point |-> close_jprobe,
        fail |-> CLOSE_PROBE_FAILED] >>

\* Faulty variant: the accept block comes before the stream connect block.
PlantOrderSwapped ==
    << [bit |-> PROBE_TCP_ACCEPT,  point |-> accept_kretprobe,
        fail |-> ACCEPT_PROBE_FAILED],
       [bit |-> PROBE_TCP_CONNECT, point |-> stream_connect_kretprobe,
        fail |-> CONNECT_PROBE_FAILED],
       [bit |-> PROBE_TCP_CLOSE,   point |-> close_jprobe,
        fail |-> CLOSE_PROBE_FAILED],
       [bit |-> PROBE_UDP_CONNECT, point |-> dgram_connect_kretprobe,
        fail |-> CONNECT_PROBE_FAILED],
       [bit |-> PROBE_UDP_BIND,    point |-> bind_kretprobe,
        fail |-> BIND_PROBE_FAILED],
       [bit |-> PROBE_UDP_CLOSE,   point |-> close_jprobe,
        fail |-> CLOSE_PROBE_FAILED] >>

PlantOrder ==
    << [bit |-> PROBE_TCP_CONNECT, point |-> stream_connect_kretprobe,
        fail |-> CONNECT_PROBE_FAILED],
       [bit |-> PROBE_TCP_ACCEPT,  point |-> accept_kretprobe,
        fail |-> ACCEPT_PROBE_FAILED],
       [bit |-> PROBE_TCP_CLOSE,   point |-> close_jprobe,
        fail |-> CLOSE_PROBE_FAILED],
       [bit |-> PROBE_UDP_CONNECT, point |-> dgram_connect_kretprobe,
        fail |-> CONNECT_PROBE_FAILED],
       [bit |-> PROBE_UDP_BIND,    point |-> bind_kretprobe,
        fail |-> BIND_PROBE_FAILED],
       [bit |-> PROBE_UDP_CLOSE,   point |-> close_jprobe,
        fail |-> CLOSE_PROBE_FAILED] >>

PlantEnd == Len(PlantOrder) + 1

\* Faulty variant: the close blocks plant without looking at the sibling bit.
NeedsPlantAlways(i, loaded) == TRUE

\* Whether block i calls the plant primitive: the close blocks skip it when
\* the sibling close bit is loaded.
NeedsPlant(i, loaded) ==
    CASE PlantOrder[i].bit = PROBE_TCP_CLOSE -> PROBE_UDP_CLOSE \notin loaded
      [] PlantOrder[i].bit = PROBE_UDP_CLOSE -> PROBE_TCP_CLOSE \notin loaded
      [] OTHER -> TRUE

\* Faulty variant: the result of the plant primitive is not tested.
PlantFailedIgnored(i, err) == FALSE

\* The test of the primitive's result in block i: `if (err)` for the
\* datagram connect probe, `if (err < 0)` for the others.
PlantFailed(i, err) ==
    IF PlantOrder[i].bit = PROBE_UDP_CONNECT THEN err # 0 ELSE err < 0

\* The first block at or after position i whose bit is in new_probes.
NextPlant(i, new_probes) ==
    LET S == {j \in i..Len(PlantOrder) : PlantOrder[j].bit \in new_probes}
    IN  IF S = {} THEN PlantEnd ELSE CHOOSE j \in S : \A k \in S : j <= k

(***************************************************************************)
(* Thread records and the control flow of the handlers                     *)
(***************************************************************************)
IdleRec ==
    [pc |-> "idle", op |-> "none", wanted |-> {}, probe |-> {}, value |-> 0,
     probes_to_add |-> {}, probes_to_remove |-> {},
     new_probes |-> {}, removed_probes |-> {}, i |-> 0, sub |-> "none",
     after |-> "none", err |-> 0, ret |-> 0, out_mask |-> {}, out_bit |-> 0]

\* The handler has reached its spin_unlock_irqrestore with return value ret.
ToUnlock(r, ret) ==
    [r EXCEPT !.pc = "unlock", !.ret = ret, !.i = 0, !.sub = "none",
              !.after = "none"]

\* Faulty variant: unplant_probes goes to its unplant calls without line 341.
StartUnplantNoXor(r, removed) ==
    LET nxt == NextUnplant(1, removed, {})
    IN  IF nxt = UnplantEnd
        THEN [r EXCEPT !.pc = "unplant", !.removed_probes = removed, !.i = 0,
                       !.sub = "xor"]
        ELSE [r EXCEPT !.pc = "unplant", !.removed_probes = removed,
                       !.i = nxt, !.sub = "call"]

\* Entering unplant_probes(removed): the next step is line 341.
StartUnplant(r, removed) ==
    [r EXCEPT !.pc = "unplant", !.removed_probes = removed, !.i = 0,
              !.sub = "xor"]

\* Entering plant_probes(new_probes): err = 0, at the first block whose bit
\* is requested, or at the final return when there is none.  `after` is
\* where the caller continues with the result.
StartPlant(r, new_probes, after) ==
    LET first == NextPlant(1, new_probes)
    IN  [r EXCEPT !.pc = "plant", !.new_probes = new_probes, !.err = 0,
                  !.ret = 0, !.i = first, !.after = after,
                  !.sub = IF first = PlantEnd THEN "ret" ELSE "call"]

\* unplant_probes has returned: all_probes_param_set goes on to
\* plant_probes(probes_to_add), the other callers to their unlock.
AfterUnplant(r) ==
    IF r.op = "all_probes_param_set"
    THEN StartPlant(r, r.probes_to_add, "unlock")
    ELSE ToUnlock(r, r.ret)

\* Faulty variant: probes_to_remove = ~wanted_probes, without `& loaded_probes`.
BodyRemoveAll(r, loaded) ==
    CASE r.op = "all_probes_param_set" ->
            LET add == r.wanted \cap Not(loaded)
                rem == Not(r.wanted)
            IN  StartUnplant([r EXCEPT !.probes_to_add = add,
                                       !.probes_to_remove = rem], rem)
      [] r.op = "one_probe_param_set" ->
            IF r.value # 0
            THEN IF (r.probe \cap Not(loaded)) # {}
                 THEN StartPlant(r, r.probe, "unlock")
                 ELSE ToUnlock(r, r.ret)
            ELSE IF (r.probe \cap loaded) # {}
                 THEN StartUnplant(r, r.probe)
                 ELSE ToUnlock(r, r.ret)
      [] OTHER -> ToUnlock(r, r.ret)

\* Faulty variant: probes_to_add = wanted_probes, without `& ~loaded_probes`.
BodyAddAll(r, loaded) ==
    CASE r.op = "all_probes_param_set" ->
            LET add == r.wanted
                rem == Not(r.wanted) \cap loaded
            IN  StartUnplant([r EXCEPT !.probes_to_add = add,
                                       !.probes_to_remove = rem], rem)
      [] r.op = "one_probe_param_set" ->
            IF r.value # 0
            THEN IF (r.probe \cap Not(loaded)) # {}
                 THEN StartPlant(r, r.probe, "unlock")
                 ELSE ToUnlock(r, r.ret)
            ELSE IF (r.probe \cap loaded) # {}
                 THEN StartUnplant(r, r.probe)
                 ELSE ToUnlock(r, r.ret)
      [] OTHER -> ToUnlock(r, r.ret)

\* Faulty variant: the single-probe setter does not test the probe's bit.
BodyNoBitTest(r, loaded) ==
    CASE r.op = "all_probes_param_set" ->
            LET add == r.wanted \cap Not(loaded)
                rem == Not(r.wanted) \cap loaded
            IN  StartUnplant([r EXCEPT !.probes_to_add = add,
                                       !.probes_to_remove = rem], rem)
      [] r.op = "one_probe_param_set" ->
            IF r.value # 0
            THEN StartPlant(r, r.probe, "unlock")
            ELSE StartUnplant(r, r.probe)
      [] OTHER -> ToUnlock(r, r.ret)

\* The part of a setter after its first-use block (lines 486-490, 558-564).
Body(r, loaded) ==
    CASE r.op = "all_probes_param_set" ->
            LET add == r.wanted \cap Not(loaded)
                rem == Not(r.wanted) \cap loaded
            IN  StartUnplant([r EXCEPT !.probes_to_add = add,
                                       !.probes_to_remove = rem], rem)
      [] r.op = "one_probe_param_set" ->
            IF r.value # 0
            THEN IF (r.probe \cap Not(loaded)) # {}
                 THEN StartPlant(r, r.probe, "unlock")
                 ELSE ToUnlock(r, r.ret)
            ELSE IF (r.probe \cap loaded) # {}
                 THEN StartUnplant(r, r.probe)
                 ELSE ToUnlock(r, r.ret)
      [] OTHER -> ToUnlock(r, r.ret)

\* The first-use block `if (initialized != 0)` right after the lock is taken
\* (lines 441, 479, 551).
FirstUse(r, init, loaded) ==
    IF init # 0
    THEN StartPlant(r, DEFAULT_PROBES,
                    IF r.op = "probes_init" THEN "init" ELSE "body")
    ELSE Body(r, loaded)

\* Faulty variant: the lock is taken without waiting for it to be free.
CanLockAlways(lock) == TRUE

\* spin_lock_irqsave can take the lock.
CanLock(lock) == lock = FALSE

(***************************************************************************)
(* The hook callbacks                                                      *)
(***************************************************************************)
WHITELISTING == TRUE

IPFamilies == {"AF_INET", "AF_INET6"}

\* What a callback finds when it looks at the call: whether `current` is
\* set, the socket and its sk, family, protocol and ports, the executable
\* path path_from_mm resolves (or NULL), and the whitelist's verdict on it.
NoCtx ==
    [current |-> TRUE, sock |-> "NULL", sk |-> FALSE, family |-> "AF_UNIX",
     protocol |-> "IPPROTO_IP", dport |-> 0, sport |-> 0, path |-> "NULL",
     listed |-> FALSE]

SockCtxs(Ports) ==
    [current : {TRUE}, sock : {"sock"}, sk : {TRUE},
     family : {"AF_INET", "AF_INET6", "AF_UNIX"},
     protocol : {"IPPROTO_TCP", "IPPROTO_UDP"},
     dport : Ports, sport : Ports,
     path : {"NULL", "/usr/sbin/sshd", "/usr/bin/nc"},
     listed : BOOLEAN]

\* A path is listed or not, whatever the call: one verdict per path.  A
\* socket of another family is taken with one path and non-zero ports.
Contexts(Ports) ==
    {c \in SockCtxs(Ports) :
        /\ c.listed = (c.path = "/usr/sbin/sshd")
        /\ c.family \notin IPFamilies =>
              (c.path = "/usr/bin/nc" /\ c.dport # 0 /\ c.sport # 0)}
    \cup {NoCtx,
          [NoCtx EXCEPT !.current = FALSE, !.sock = "sock", !.sk = TRUE,
                        !.family = "AF_INET", !.protocol = "IPPROTO_TCP",
                        !.path = "/usr/bin/nc"],
          [NoCtx EXCEPT !.sock = "sock"]}

\* The contexts of the close hook take ports 0 and non-zero; the other
\* hooks, which do not test the ports, a connected and bound socket.
CloseContexts == Contexts({0, 80})
OtherContexts == Contexts({80})

\* The whitelist gate: never whitelisted with a NULL path.
is_whitelisted(path, listed) == path # "NULL" /\ listed

\* Faulty variant: the record is stored whatever the gate returns.
log_always(c, protocol, action) ==
    LET g == [path |-> c.path, family |-> c.family, ip |-> "DADDR",
              port |-> c.dport, result |-> is_whitelisted(c.path, c.listed)]
        e == [path |-> c.path, action |-> action, protocol |-> protocol,
              family |-> c.family, src_ip |-> "SADDR", src_port |-> c.sport,
              dst_ip |-> "DADDR", dst_port |-> c.dport]
    IN  IF c.path = "NULL"
        THEN [gate |-> <<>>, events |-> <<>>]
        ELSE [gate |-> <<g>>, events |-> <<e>>]

\* log_if_not_whitelisted(sock, protocol, action): what is handed to the
\* gate and what to the sink.
log_if_not_whitelisted(c, protocol, action) ==
    LET dst_ip == CASE c.family = "AF_INET" -> "DADDR"
                    [] c.family = "AF_INET6" -> "sk_v6_daddr"
                    [] OTHER -> "NULL"
        src_ip == CASE c.family = "AF_INET" -> "SADDR"
                    [] c.family = "AF_INET6" -> "saddr"
                    [] OTHER -> "NULL"
        g == [path |-> c.path, family |-> c.family, ip |-> dst_ip,
              port |-> c.dport, result |-> is_whitelisted(c.path, c.listed)]
        e == [path |-> c.path, action |-> action, protocol |-> protocol,
              family |-> c.family, src_ip |-> src_ip, src_port |-> c.sport,
              dst_ip |-> dst_ip, dst_port |-> c.dport]
    IN  IF c.path = "NULL"
        THEN [gate |-> <<>>, events |-> <<>>]
        ELSE IF WHITELISTING /\ g.result
             THEN [gate |-> <<g>>, events |-> <<>>]
             ELSE [gate |-> IF WHITELISTING THEN <<g>> ELSE <<>>,
                   events |-> <<e>>]

NoLog == [gate |-> <<>>, events |-> <<>>]

\* Faulty variant: every return handler tests for IPPROTO_TCP.
HookProtocolAllTcp(h) == "IPPROTO_TCP"

\* The protocol and action of the return handler of each kretprobe.
HookProtocol(h) ==
    CASE h = stream_connect_kretprobe -> "IPPROTO_TCP"
      [] h = dgram_connect_kretprobe -> "IPPROTO_UDP"
      [] h = accept_kretprobe -> "IPPROTO_TCP"
      [] h = bind_kretprobe -> "IPPROTO_UDP"

HookLog(h) ==
    CASE h = stream_connect_kretprobe -> <<"PROTO_TCP", "ACTION_CONNECT">>
      [] h = dgram_connect_kretprobe -> <<"PROTO_UDP", "ACTION_CONNECT">>
      [] h = accept_kretprobe -> <<"PROTO_TCP", "ACTION_ACCEPT">>
      [] h = bind_kretprobe -> <<"PROTO_UDP", "ACTION_BIND">>

\* Faulty variant: the return handlers do not test the address family.
PostFilterNoFamily(h, c) ==
    /\ (h \in {stream_connect_kretprobe, dgram_connect_kretprobe} => c.current)
    /\ c.sock # "NULL"
    /\ c.sk
    /\ c.protocol = HookProtocol(h)

\* The test in front of log_if_not_whitelisted in the return handlers; the
\* connect handlers also test `current`.
PostFilter(h, c) ==
    /\ (h \in {stream_connect_kretprobe, dgram_connect_kretprobe} => c.current)
    /\ c.sock # "NULL"
    /\ c.sk
    /\ c.family \in IPFamilies
    /\ c.protocol = HookProtocol(h)

\* Faulty variant: post_sys_bind does not release the socket.
ReturnPutAcceptOnly(h, c) == h = accept_kretprobe /\ c.sock # "NULL"

\* The sockfd_lookup of a return handler (post_sys_accept resolves the
\* returned descriptor) and the sockfd_put inside `if (sock != NULL)` of
\* post_sys_accept and post_sys_bind.
ReturnLookup(h, c) == h = accept_kretprobe /\ c.sock # "NULL"

ReturnPut(h, c) == h \in {accept_kretprobe, bind_kretprobe} /\ c.sock # "NULL"

\* pre_sys_close, lines 212-216: the tests that lead to `out`.
CloseSkip(c) ==
    \/ ~c.current
    \/ c.sock = "NULL"
    \/ ~c.sk
    \/ c.family \notin IPFamilies

\* Faulty variant: the TCP branch does not test the destination port.
CloseTcpCondNoPort(mask, c) ==
    /\ PROBE_TCP_CLOSE \in mask
    /\ c.protocol = "IPPROTO_TCP"

\* pre_sys_close, lines 219-221 and 223-225, with the mask just read.
CloseTcpCond(mask, c) ==
    /\ PROBE_TCP_CLOSE \in mask
    /\ c.protocol = "IPPROTO_TCP"
    /\ c.dport # 0

\* Faulty variant: the UDP branch does not test the protocol.
CloseUdpCondNoProtocol(mask, c) ==
    /\ PROBE_UDP_CLOSE \in mask
    /\ c.sport # 0

CloseUdpCond(mask, c) ==
    /\ PROBE_UDP_CLOSE \in mask
    /\ c.protocol = "IPPROTO_UDP"
    /\ c.sport # 0

IdleFire ==
    [pc |-> "idle", hook |-> "none", sock |-> "NULL", ctx |-> NoCtx,
     seen_tcp |-> "unread", seen_udp |-> "unread",
     gate |-> <<>>, events |-> <<>>, lookups |-> 0, puts |-> 0,
     returned |-> FALSE]

SeenBit(k, mask) == IF k \in mask THEN "set" ELSE "clear"

\* The instrumentation subsystem dispatches a call of a probed function to
\* a planted kretprobe, whose entry handler runs: pre_handler_store_sock
\* keeps the socket argument, pre_sys_bind resolves the descriptor, and
\* the accept probe has no entry handler.  An entry handler that returns 1
\* ends the invocation without its return handler.
KretprobeEntry(h) ==
    /\ fire.pc = "idle"
    /\ h \in planted
    /\ h # close_jprobe
    /\ \E current \in BOOLEAN, sock \in {"NULL", "sock"} :
         fire' =
           CASE h = accept_kretprobe ->
                  [IdleFire EXCEPT !.pc = "return", !.hook = h]
             [] h = bind_kretprobe ->
                  IF ~current
                  THEN [IdleFire EXCEPT !.pc = "end", !.hook = h]
                  ELSE IF sock # "NULL"
                       THEN [IdleFire EXCEPT !.pc = "return", !.hook = h,
                                             !.sock = sock, !.lookups = 1]
                       ELSE [IdleFire EXCEPT !.pc = "end", !.hook = h]
             [] OTHER ->
                  IF current
                  THEN [IdleFire EXCEPT !.pc = "return", !.hook = h,
                                        !.sock = sock]
                  ELSE [IdleFire EXCEPT !.pc = "end", !.hook = h]
    /\ UNCHANGED regvars

\* The return handler: post_inet_stream_connect, post_inet_dgram_connect,
\* post_sys_accept (which resolves the returned descriptor itself) and
\* post_sys_bind.  It runs in the task whose entry handler found `current`
\* set; post_sys_accept, which has no entry handler and does not test
\* `current`, runs in the task that called accept.
KretprobeReturn ==
    /\ fire.pc = "return"
    /\ \E c \in OtherContexts :
         /\ fire.hook # accept_kretprobe => c.sock = fire.sock
         /\ c.current
         /\ LET h == fire.hook
                log == IF PostFilter(h, c)
                       THEN log_if_not_whitelisted(c, HookLog(h)[1], HookLog(h)[2])
                       ELSE NoLog
                lookup == ReturnLookup(h, c)
                put == ReturnPut(h, c)
            IN  fire' = [fire EXCEPT !.pc = "end", !.ctx = c,
                                     !.returned = TRUE,
                                     !.gate = log.gate, !.events = log.events,
                                     !.lookups = @ + (IF lookup THEN 1 ELSE 0),
                                     !.puts = @ + (IF put THEN 1 ELSE 0)]
    /\ UNCHANGED regvars

\* A call of sys_close is dispatched to the planted jprobe.
JprobeEntry ==
    /\ fire.pc = "idle"
    /\ close_jprobe \in planted
    /\ fire' = [IdleFire EXCEPT !.pc = "close", !.hook = close_jprobe]
    /\ UNCHANGED regvars

\* pre_sys_close up to the first condition (lines 210-222): the lookup, the
\* tests that lead to `out`, and the TCP branch with loaded_probes as read
\* now.
pre_sys_close_tcp ==
    /\ fire.pc = "close"
    /\ \E c \in CloseContexts :
         LET looked == IF c.sock # "NULL" THEN 1 ELSE 0
         IN  fire' =
               IF CloseSkip(c)
               THEN [fire EXCEPT !.pc = "end", !.ctx = c, !.lookups = looked,
                                 !.puts = looked]
               ELSE IF CloseTcpCond(loaded_probes, c)
                    THEN LET log == log_if_not_whitelisted(c, "PROTO_TCP",
                                                           "ACTION_CLOSE")
                         IN  [fire EXCEPT !.pc = "end", !.ctx = c,
                                          !.seen_tcp = "set",
                                          !.gate = log.gate,
                                          !.events = log.events,
                                          !.lookups = looked, !.puts = looked]
                    ELSE [fire EXCEPT !.pc = "close_udp", !.ctx = c,
                                      !.seen_tcp =
                                          SeenBit(PROBE_TCP_CLOSE, loaded_probes),
                                      !.lookups = looked]
    /\ UNCHANGED regvars

\* pre_sys_close, the `else if` (lines 223-226) with loaded_probes as read
\* now, and `out`.
pre_sys_close_udp ==
    /\ fire.pc = "close_udp"
    /\ LET c == fire.ctx
           log == IF CloseUdpCond(loaded_probes, c)
                  THEN log_if_not_whitelisted(c, "PROTO_UDP", "ACTION_CLOSE")
                  ELSE NoLog
       IN  fire' = [fire EXCEPT !.pc = "end",
                                !.seen_udp =
                                    SeenBit(PROBE_UDP_CLOSE, loaded_probes),
                                !.gate = log.gate, !.events = log.events,
                                !.puts = fire.lookups]
    /\ UNCHANGED regvars

\* The invocation is over.
FireEnd ==
    /\ fire.pc = "end"
    /\ fire' = IdleFire
    /\ UNCHANGED regvars

HookStep ==
    \/ \E h \in Points : KretprobeEntry(h)
    \/ KretprobeReturn
    \/ JprobeEntry
    \/ pre_sys_close_tcp
    \/ pre_sys_close_udp
    \/ FireEnd

(***************************************************************************)
(* Initial state                                                           *)
(***************************************************************************)
Init ==
    /\ initialized = 0
    /\ loaded_probes = {}
    /\ probe_lock = FALSE
    /\ planted = {}
    /\ adm = [t \in Admins |-> IdleRec]
    /\ calls = <<>>
    /\ pre = [loaded |-> {}, planted |-> {}]
    /\ fresh = TRUE
    /\ fire = IdleFire

(***************************************************************************)
(* Actions of the administrative threads                                   *)
(***************************************************************************)
\* A thread calls one of the handlers and reaches its spin_lock_irqsave.
Enter(t) ==
    /\ adm[t].pc = "idle"
    /\ adm' = [adm EXCEPT ![t] = [IdleRec EXCEPT !.pc = "spin"]]
    /\ UNCHANGED <<initialized, loaded_probes, probe_lock, planted, calls,
                   pre, fresh, fire>>

\* A setter whose text does not parse, or whose kp->arg is NULL, returns
\* before it takes the lock (lines 474-475, 537-538, 545-546).
param_set_invalid(t) ==
    /\ adm[t].pc = "spin"
    /\ adm' = [adm EXCEPT ![t] = IdleRec]
    /\ UNCHANGED <<initialized, loaded_probes, probe_lock, planted, calls,
                   pre, fresh, fire>>

\* Taking the lock: the operation starts with an empty call record.
Acquire(t, r) ==
    /\ adm[t].pc = "spin"
    /\ CanLock(probe_lock)
    /\ probe_lock' = TRUE
    /\ adm' = [adm EXCEPT ![t] = r]
    /\ calls' = <<>>
    /\ pre' = IF probe_lock = FALSE
              THEN [loaded |-> loaded_probes, planted |-> planted]
              ELSE pre
    /\ UNCHANGED <<initialized, loaded_probes, planted, fresh, fire>>

all_probes_param_set(t, Wanted) ==
    \E wanted \in Wanted :
        Acquire(t, FirstUse([IdleRec EXCEPT !.op = "all_probes_param_set",
                                            !.wanted = wanted],
                            initialized, loaded_probes))

one_probe_param_set(t) ==
    \E p \in DOMAIN probe_list, value \in {0, 1} :
        Acquire(t, FirstUse([IdleRec EXCEPT !.op = "one_probe_param_set",
                                            !.probe = probe_list[p].mask,
                                            !.value = value],
                            initialized, loaded_probes))

probes_init(t) ==
    Acquire(t, FirstUse([IdleRec EXCEPT !.op = "probes_init"],
                        initialized, loaded_probes))

unplant_all(t) ==
    Acquire(t, StartUnplant([IdleRec EXCEPT !.op = "unplant_all"],
                            loaded_probes))

all_probes_param_get(t) ==
    Acquire(t, ToUnlock([IdleRec EXCEPT !.op = "all_probes_param_get",
                                        !.out_mask = loaded_probes], 0))

one_probe_param_get(t) ==
    \E p \in DOMAIN probe_list :
        Acquire(t, ToUnlock([IdleRec EXCEPT
                                !.op = "one_probe_param_get",
                                !.probe = probe_list[p].mask,
                                !.out_bit =
                                    IF (probe_list[p].mask \cap loaded_probes) # {}
                                    THEN 1 ELSE 0], 0))

\* unplant_probes, line 341: loaded_probes ^= removed_probes.
UnplantXor(t) ==
    LET r == adm[t]
        loaded == Xor(loaded_probes, r.removed_probes)
        nxt == NextUnplant(1, r.removed_probes, loaded)
    IN  /\ r.pc = "unplant"
        /\ r.sub = "xor"
        /\ loaded_probes' = loaded
        /\ adm' = [adm EXCEPT ![t] =
                     IF nxt = UnplantEnd THEN AfterUnplant(r)
                     ELSE [r EXCEPT !.i = nxt, !.sub = "call"]]
        /\ UNCHANGED <<initialized, probe_lock, planted, calls, pre,
                       fresh, fire>>

\* unplant_probes, lines 343-357: the next unplant call that is executed.
UnplantCall(t) ==
    LET r == adm[t]
        point == UnplantOrder[r.i].point
        nxt == NextUnplant(r.i + 1, r.removed_probes, loaded_probes)
    IN  /\ r.pc = "unplant"
        /\ r.sub = "call"
        /\ planted' = unplant_kretprobe(point, planted)
        /\ calls' = Append(calls, [call |-> "unplant", point |-> point,
                                  bits |-> UnplantOrder[r.i].bits, err |-> 0,
                                  was |-> point \in planted,
                                  mask |-> loaded_probes])
        /\ adm' = [adm EXCEPT ![t] =
                     IF nxt = UnplantEnd THEN AfterUnplant(r)
                     ELSE [r EXCEPT !.i = nxt]]
        /\ UNCHANGED <<initialized, loaded_probes, probe_lock, pre,
                       fresh, fire>>

\* plant_probes, block i up to the test of err: the plant call unless the
\* sibling close bit makes the block skip it, and the early return.
PlantCall(t) ==
    LET r == adm[t]
        b == PlantOrder[r.i]
    IN  /\ r.pc = "plant"
        /\ r.sub = "call"
        /\ IF NeedsPlant(r.i, loaded_probes)
           THEN \E err \in PlantResults :
                  /\ planted' = plant_kretprobe(b.point, planted, err)
                  /\ calls' = Append(calls, [call |-> "plant", point |-> b.point,
                                            bits |-> Bit(b.bit), err |-> err,
                                            was |-> b.point \in planted,
                                            mask |-> loaded_probes])
                  /\ adm' = [adm EXCEPT ![t] =
                               IF PlantFailed(r.i, err)
                               THEN [r EXCEPT !.err = err, !.ret = -b.fail,
                                              !.sub = "ret"]
                               ELSE [r EXCEPT !.err = err, !.sub = "set"]]
           ELSE /\ adm' = [adm EXCEPT ![t] = [r EXCEPT !.sub = "set"]]
                /\ UNCHANGED <<planted, calls>>
        /\ UNCHANGED <<initialized, loaded_probes, probe_lock, pre,
                       fresh, fire>>

\* plant_probes, the last line of block i: loaded_probes |= 1 << bit.
PlantSet(t) ==
    LET r == adm[t]
        nxt == NextPlant(r.i + 1, r.new_probes)
    IN  /\ r.pc = "plant"
        /\ r.sub = "set"
        /\ loaded_probes' = loaded_probes \cup Bit(PlantOrder[r.i].bit)
        /\ adm' = [adm EXCEPT ![t] =
                     IF nxt = PlantEnd
                     THEN [r EXCEPT !.i = nxt, !.sub = "ret", !.ret = r.err]
                     ELSE [r EXCEPT !.i = nxt, !.sub = "call"]]
        /\ UNCHANGED <<initialized, probe_lock, planted, calls, pre,
                       fresh, fire>>

\* plant_probes returns and its caller continues: probes_init sets
\* initialized when ret >= 0; a setter's first-use block leaves through
\* `fail` when ret < 0 and else sets initialized and goes on to its body;
\* the body's own plant_probes is followed by the unlock.
PlantReturn(t) ==
    LET r == adm[t]
    IN  /\ r.pc = "plant"
        /\ r.sub = "ret"
        /\ initialized' =
             IF \/ r.after = "init" /\ r.ret >= 0
                \/ r.after = "body" /\ ~(r.ret < 0)
             THEN 1 ELSE initialized
        /\ adm' = [adm EXCEPT ![t] =
                     IF r.after = "body" /\ ~(r.ret < 0)
                     THEN Body([r EXCEPT !.ret = 0], loaded_probes)
                     ELSE ToUnlock(r, r.ret)]
        /\ UNCHANGED <<loaded_probes, probe_lock, planted, calls, pre,
                       fresh, fire>>

\* spin_unlock_irqrestore and the return to the caller.
Unlock(t) ==
    LET r == adm[t]
    IN  /\ r.pc = "unlock"
        /\ probe_lock' = FALSE
        /\ adm' = [adm EXCEPT ![t] = IdleRec]
        /\ fresh' = FALSE
        /\ calls' = <<>>
        /\ pre' = [loaded |-> loaded_probes, planted |-> planted]
        /\ UNCHANGED <<initialized, loaded_probes, planted, fire>>

RegistryStep(t, Wanted) ==
    \/ Enter(t)
    \/ param_set_invalid(t)
    \/ all_probes_param_set(t, Wanted)
    \/ one_probe_param_set(t)
    \/ probes_init(t)
    \/ unplant_all(t)
    \/ all_probes_param_get(t)
    \/ one_probe_param_get(t)
    \/ UnplantXor(t)
    \/ UnplantCall(t)
    \/ PlantCall(t)
    \/ PlantSet(t)
    \/ PlantReturn(t)
    \/ Unlock(t)

\* The registry driven with wanted masks over the six probe kinds.
Next == \E t \in Admins : RegistryStep(t, KindMasks)

Spec == Init /\ [][Next]_vars

\* The thread of the specifications that run a single administrative thread.
HookAdmins == {CHOOSE t \in Admins : TRUE}

\* One administrative thread driving the registry with wanted masks over the
\* whole modelled width, bits beyond the six probe kinds included.
NextWide == \E t \in HookAdmins : RegistryStep(t, Masks)

SpecWide == Init /\ [][NextWide]_vars

\* The hooks firing while one administrative thread sets and clears single
\* probes and unplants them all.
HookRegistryStep(t) ==
    \/ Enter(t)
    \/ one_probe_param_set(t)
    \/ unplant_all(t)
    \/ UnplantXor(t)
    \/ UnplantCall(t)
    \/ PlantCall(t)
    \/ PlantSet(t)
    \/ PlantReturn(t)
    \/ Unlock(t)

NextHook ==
    \/ \E t \in HookAdmins : HookRegistryStep(t)
    \/ HookStep

SpecHook == Init /\ [][NextHook]_vars

(***************************************************************************)
(* Vocabulary of the properties                                            *)
(***************************************************************************)
\* The thread is inside its critical section.
InCS(t) == adm[t].pc \in {"unplant", "plant", "unlock"}

\* The handler of thread t has finished its work and is at its unlock: its
\* return value, its call record and the resulting mask are final.
Done(t) == adm[t].pc = "unlock"

\* No registry operation holds the lock.
Quiescent == probe_lock = FALSE

CallSet == {calls[j] : j \in DOMAIN calls}

NumCalls(kind, point) ==
    Cardinality({j \in DOMAIN calls :
                    calls[j].call = kind /\ calls[j].point = point})

\* No plant call of the operation failed.
NoPlantFailed == \A c \in CallSet : c.err = 0

\* The interception point probe kind k needs.
PointOfKind(k) ==
    PlantOrder[CHOOSE j \in DOMAIN PlantOrder : PlantOrder[j].bit = k].point

\* The position of probe kind k in the order plant_probes handles the kinds.
PlantPos(k) == CHOOSE j \in DOMAIN PlantOrder : PlantOrder[j].bit = k

(***************************************************************************)
(* C1: the shared close hook.  (a) Whenever no registry operation holds    *)
(* the lock, close_jprobe is planted iff TCP_CLOSE or UDP_CLOSE is set in  *)
(* loaded_probes.  (b) Every plant call on close_jprobe is issued while    *)
(* the hook is not planted and no close bit is set; every unplant call on  *)
(* it is issued while it is planted and no close bit is left; an operation *)
(* issues at most one of each.  (c) Setting one close bit while the other  *)
(* is set issues no plant call, setting it while neither is set issues     *)
(* exactly one; clearing one close bit while the other stays set issues no *)
(* unplant call, clearing the last one issues exactly one.                 *)
(***************************************************************************)
C1_SharedCloseHook ==
    /\ Quiescent =>
         ((close_jprobe \in planted) <=> ((loaded_probes \cap CloseBits) # {}))
    /\ \A c \in CallSet :
         c.point = close_jprobe =>
           /\ (c.mask \cap CloseBits) = {}
           /\ c.call = "plant" => ~c.was
           /\ c.call = "unplant" => c.was
    /\ NumCalls("plant", close_jprobe) <= 1
    /\ NumCalls("unplant", close_jprobe) <= 1
    /\ \A t \in Admins :
         LET r == adm[t]
             sibling == CloseBits \ r.probe
         IN  (Done(t) /\ r.op = "one_probe_param_set" /\ r.probe \subseteq CloseBits)
             => /\ (r.value # 0 /\ sibling \subseteq pre.loaded)
                    => /\ calls = <<>>
                       /\ CloseBits \subseteq loaded_probes
                /\ (r.value # 0 /\ (pre.loaded \cap CloseBits) = {})
                    => NumCalls("plant", close_jprobe) = 1
                /\ (r.value = 0 /\ sibling \subseteq pre.loaded)
                    => /\ calls = <<>>
                       /\ close_jprobe \in planted
                /\ (r.value = 0 /\ (pre.loaded \cap CloseBits) = r.probe)
                    => /\ NumCalls("unplant", close_jprobe) = 1
                       /\ close_jprobe \notin planted

\* install(UDP_CLOSE) after install(TCP_CLOSE): both bits set, no plant call.
C1_Witness ==
    \E t \in Admins :
        /\ Done(t)
        /\ adm[t].op = "one_probe_param_set"
        /\ adm[t].value = 1
        /\ adm[t].probe = Bit(PROBE_UDP_CLOSE)
        /\ PROBE_TCP_CLOSE \in pre.loaded
        /\ PROBE_UDP_CLOSE \notin pre.loaded
        /\ calls = <<>>
        /\ CloseBits \subseteq loaded_probes
        /\ close_jprobe \in planted

(***************************************************************************)
(* C2: a mask set (all_probes_param_set) with wanted mask B over the six   *)
(* kinds, from any reachable mask, in which no plant call fails, leaves    *)
(* loaded_probes = B; and when the mask was already B (as after a          *)
(* previous set of B) it issues no plant or unplant call and leaves the    *)
(* mask and the planted points unchanged.                                  *)
(***************************************************************************)
C2_ReconcileConverges ==
    \A t \in Admins :
        LET r == adm[t]
        IN  (Done(t) /\ r.op = "all_probes_param_set" /\ NoPlantFailed)
            => /\ r.ret = 0
               /\ loaded_probes = r.wanted
               /\ pre.loaded = r.wanted
                    => /\ calls = <<>>
                       /\ planted = pre.planted

\* A set of B from a mask A with bits to remove and bits to add.
C2_Witness ==
    \E t \in Admins :
        /\ Done(t)
        /\ adm[t].op = "all_probes_param_set"
        /\ NoPlantFailed
        /\ adm[t].probes_to_add # {}
        /\ adm[t].probes_to_remove # {}
        /\ (pre.loaded \cap adm[t].wanted) # {}
        /\ loaded_probes = adm[t].wanted

(***************************************************************************)
(* C3: whenever no registry operation holds the lock, each of TCP_CONNECT, *)
(* TCP_ACCEPT, UDP_CONNECT, UDP_BIND is set in loaded_probes iff its own   *)
(* point is planted, and a close bit that is set implies close_jprobe is   *)
(* planted; plant failures are arbitrary.                                  *)
(***************************************************************************)
C3_MaskMatchesPoints ==
    Quiescent =>
        /\ \A k \in Kinds \ CloseBits :
             (k \in loaded_probes) <=> (PointOfKind(k) \in planted)
        /\ \A k \in CloseBits :
             (k \in loaded_probes) => (close_jprobe \in planted)

\* The lock is free, one close bit and two other bits are set and two
\* points are not planted.
C3_Witness ==
    /\ Quiescent
    /\ fresh = FALSE
    /\ loaded_probes = {PROBE_TCP_ACCEPT, PROBE_UDP_BIND, PROBE_UDP_CLOSE}
    /\ planted = {accept_kretprobe, bind_kretprobe, close_jprobe}

(***************************************************************************)
(* C4: when a plant call fails inside plant_probes, the handler returns    *)
(* the negated error tag of the failing kind's family (connect for         *)
(* TCP_CONNECT and UDP_CONNECT, accept for TCP_ACCEPT, close for TCP_CLOSE *)
(* and UDP_CLOSE, bind for UDP_BIND), the failing kind's bit is clear, and *)
(* every bit that was set when plant_probes was entered, and every         *)
(* requested bit handled before the failing kind, is set with its point    *)
(* planted: nothing is rolled back.                                        *)
(***************************************************************************)
ClaimedTag(k) ==
    CASE k \in {PROBE_TCP_CONNECT, PROBE_UDP_CONNECT} -> CONNECT_PROBE_FAILED
      [] k = PROBE_TCP_ACCEPT -> ACCEPT_PROBE_FAILED
      [] k \in {PROBE_TCP_CLOSE, PROBE_UDP_CLOSE} -> CLOSE_PROBE_FAILED
      [] k = PROBE_UDP_BIND -> BIND_PROBE_FAILED

C4_FailedInstall ==
    \A t \in Admins :
      \A c \in CallSet :
        (Done(t) /\ c.call = "plant" /\ c.err # 0) =>
          LET r == adm[t]
              k == CHOOSE b \in c.bits : TRUE
              before == pre.loaded \ r.probes_to_remove
              earlier == {b \in r.new_probes \cap Kinds :
                            PlantPos(b) < PlantPos(k)}
          IN  /\ r.ret = -ClaimedTag(k)
              /\ k \notin loaded_probes
              /\ before \subseteq loaded_probes
              /\ earlier \subseteq loaded_probes
              /\ \A b \in before \cup earlier : PointOfKind(b) \in planted

\* The bind plant fails after the stream connect plant of the same call
\* succeeded, with another probe loaded before the call.
C4_Witness ==
    \E t \in Admins :
        /\ Done(t)
        /\ adm[t].ret = -BIND_PROBE_FAILED
        /\ \E c \in CallSet : c.call = "plant" /\ c.err # 0
                              /\ c.point = bind_kretprobe
        /\ PROBE_TCP_CONNECT \in adm[t].new_probes
        /\ PROBE_TCP_CONNECT \in loaded_probes
        /\ PROBE_TCP_ACCEPT \in pre.loaded \cap loaded_probes
        /\ PROBE_UDP_BIND \notin loaded_probes

(***************************************************************************)
(* C5 as stated: when the mask to install holds TCP_ACCEPT and other bits  *)
(* that are not loaded, and the accept plant fails, the handler returns    *)
(* the accept error, the accept bit stays clear, and every other requested *)
(* bit ends up set.                                                        *)
(***************************************************************************)
AcceptFailed(t) ==
    /\ Done(t)
    /\ adm[t].op = "all_probes_param_set"
    /\ PROBE_TCP_ACCEPT \in adm[t].probes_to_add
    /\ adm[t].probes_to_add # Bit(PROBE_TCP_ACCEPT)
    /\ \E c \in CallSet : c.call = "plant" /\ c.err # 0
                          /\ c.point = accept_kretprobe

C5_AsClaimed ==
    \A t \in Admins :
        AcceptFailed(t) =>
            /\ adm[t].ret = -ACCEPT_PROBE_FAILED
            /\ PROBE_TCP_ACCEPT \notin loaded_probes
            /\ (adm[t].probes_to_add \ Bit(PROBE_TCP_ACCEPT)) \subseteq loaded_probes

(***************************************************************************)
(* C5 amended: in that case the handler returns the accept error, the      *)
(* accept bit stays clear, the requested bits plant_probes handles before  *)
(* TCP_ACCEPT (TCP_CONNECT) end up set, and the requested bits it handles  *)
(* after TCP_ACCEPT are not installed: the accept plant is the last call.  *)
(***************************************************************************)
C5_AcceptFailure ==
    \A t \in Admins :
        AcceptFailed(t) =>
            /\ adm[t].ret = -ACCEPT_PROBE_FAILED
            /\ PROBE_TCP_ACCEPT \notin loaded_probes
            /\ \A b \in (adm[t].probes_to_add \cap Kinds) \ Bit(PROBE_TCP_ACCEPT) :
                 (b \in loaded_probes) <=> (PlantPos(b) < PlantPos(PROBE_TCP_ACCEPT))
            /\ calls[Len(calls)].point = accept_kretprobe

\* TCP_CONNECT, TCP_ACCEPT and TCP_CLOSE requested, the accept plant fails.
C5_Witness ==
    \E t \in Admins :
        /\ AcceptFailed(t)
        /\ adm[t].probes_to_add = {PROBE_TCP_CONNECT, PROBE_TCP_ACCEPT,
                                   PROBE_TCP_CLOSE}
        /\ PROBE_TCP_CONNECT \in loaded_probes
        /\ PROBE_TCP_CLOSE \notin loaded_probes

(***************************************************************************)
(* C6 as stated: on a fresh registry (no handler has finished, initialized *)
(* at its initial value, mask empty) a first handler call installs         *)
(* DEFAULT_PROBES before anything else; after a first probes_init without  *)
(* plant failure loaded_probes = DEFAULT_PROBES.                           *)
(***************************************************************************)
C6_AsClaimed ==
    \A t \in Admins :
        (Done(t) /\ fresh /\ adm[t].op = "probes_init" /\ NoPlantFailed)
            => loaded_probes = DEFAULT_PROBES

(***************************************************************************)
(* C7: at most one thread is inside a critical section, and only while the *)
(* lock is held; every operation works on the mask of a state in which no  *)
(* operation was in progress: the mask set computes its delta from it, and *)
(* the getters return it, never the mask between the unplant phase and the *)
(* plant phase of another thread's mask set.                               *)
(***************************************************************************)
C7_Serialized ==
    /\ Cardinality({t \in Admins : InCS(t)}) <= 1
    /\ (\E t \in Admins : InCS(t)) <=> (probe_lock = TRUE)
    /\ \A t \in Admins :
         LET r == adm[t]
         IN  /\ (InCS(t) /\ r.op = "all_probes_param_set" /\ r.after # "body")
                  => /\ r.probes_to_add = r.wanted \ pre.loaded
                     /\ r.probes_to_remove = pre.loaded \ r.wanted
             /\ (Done(t) /\ r.op = "all_probes_param_get")
                  => /\ r.out_mask = pre.loaded
                     /\ r.out_mask = loaded_probes
             /\ (Done(t) /\ r.op = "one_probe_param_get")
                  => r.out_bit = IF (r.probe \cap pre.loaded) # {} THEN 1 ELSE 0

\* A mask set between its unplant phase and its plant phase, the mask being
\* neither the old nor the wanted one, while another thread waits for the
\* lock.
C7_Witness ==
    \E t \in Admins, u \in Admins :
        /\ t # u
        /\ adm[t].op = "all_probes_param_set"
        /\ adm[t].pc = "plant"
        /\ loaded_probes # pre.loaded
        /\ loaded_probes # adm[t].wanted
        /\ adm[u].pc = "spin"

(***************************************************************************)
(* C8: unplant_all leaves loaded_probes empty and no point planted, and    *)
(* issues exactly one unplant call for each point that was planted (one    *)
(* for close_jprobe even when both close bits were set) and none for any   *)
(* other point.                                                            *)
(***************************************************************************)
C8_Shutdown ==
    \A t \in Admins :
        (Done(t) /\ adm[t].op = "unplant_all") =>
            /\ loaded_probes = {}
            /\ planted = {}
            /\ \A c \in CallSet : c.call = "unplant" /\ c.was
            /\ {c.point : c \in CallSet} = pre.planted
            /\ Len(calls) = Cardinality(pre.planted)

\* unplant_all with both close bits and two other probes loaded.
C8_Witness ==
    \E t \in Admins :
        /\ Done(t)
        /\ adm[t].op = "unplant_all"
        /\ CloseBits \subseteq pre.loaded
        /\ Cardinality(pre.loaded) = 4
        /\ NumCalls("unplant", close_jprobe) = 1
        /\ Len(calls) = 3

(***************************************************************************)
(* C9: an invocation of pre_sys_close hands at most one event to the sink, *)
(* never a TCP close and a UDP close together, and for a socket whose      *)
(* protocol is TCP never a UDP close, whatever the ports and the close     *)
(* bits it reads are.                                                      *)
(***************************************************************************)
EventSet == {fire.events[j] : j \in DOMAIN fire.events}

C9_CloseExclusive ==
    fire.hook = close_jprobe =>
        /\ Len(fire.events) <= 1
        /\ ~(\E e1 \in EventSet, e2 \in EventSet :
                e1.protocol = "PROTO_TCP" /\ e2.protocol = "PROTO_UDP")
        /\ \A e \in EventSet :
             /\ e.action = "ACTION_CLOSE"
             /\ fire.ctx.protocol = "IPPROTO_TCP" => e.protocol # "PROTO_UDP"

\* Both close bits active and read as set, a TCP socket with destination
\* port 0 and a non-zero source port: no event.
C9_Witness ==
    /\ fire.pc = "end"
    /\ fire.hook = close_jprobe
    /\ CloseBits \subseteq loaded_probes
    /\ fire.seen_tcp = "set"
    /\ fire.seen_udp = "set"
    /\ fire.ctx.protocol = "IPPROTO_TCP"
    /\ fire.ctx.family = "AF_INET"
    /\ fire.ctx.dport = 0
    /\ fire.ctx.sport # 0
    /\ fire.ctx.path = "/usr/bin/nc"
    /\ fire.events = <<>>

(***************************************************************************)
(* C10: an invocation of any hook hands at most one event to the sink and  *)
(* calls the whitelist gate at most once, only from its own callback;      *)
(* the gate is never called with a NULL path; when the gate returns true   *)
(* no event is emitted; an event is emitted only after the gate returned   *)
(* false; and when the callback's filters pass, the path resolves and the  *)
(* gate returns false, exactly one event is emitted.                       *)
(***************************************************************************)
\* The filters of the invocation that has ended, as the claim lists them.
FiltersPassed ==
    LET c == fire.ctx
    IN  /\ fire.pc = "end"
        /\ c.current
        /\ c.sock # "NULL"
        /\ c.sk
        /\ c.family \in IPFamilies
        /\ IF fire.hook = close_jprobe
           THEN \/ fire.seen_tcp = "set" /\ c.protocol = "IPPROTO_TCP"
                                      /\ c.dport # 0
                \/ fire.seen_udp = "set" /\ c.protocol = "IPPROTO_UDP"
                                      /\ c.sport # 0
           ELSE fire.returned /\ c.protocol = HookProtocol(fire.hook)

C10_OneEventPerFiring ==
    /\ Len(fire.events) <= 1
    /\ Len(fire.gate) <= 1
    /\ fire.pc \notin {"end"} => (fire.events = <<>> /\ fire.gate = <<>>)
    /\ \A j \in DOMAIN fire.gate :
         /\ fire.gate[j].path # "NULL"
         /\ fire.gate[j].result => fire.events = <<>>
         /\ ~fire.gate[j].result => Len(fire.events) = 1
    /\ fire.events # <<>> => (fire.gate # <<>> /\ ~fire.gate[1].result)
    /\ (FiltersPassed /\ fire.ctx.path # "NULL")
         => /\ Len(fire.gate) = 1
            /\ fire.gate[1].result = fire.ctx.listed
            /\ Len(fire.events) = (IF fire.ctx.listed THEN 0 ELSE 1)

\* A stream connect of a whitelisted executable: the gate returns true and
\* nothing reaches the sink.
C10_Witness ==
    /\ fire.pc = "end"
    /\ fire.hook = stream_connect_kretprobe
    /\ FiltersPassed
    /\ Len(fire.gate) = 1
    /\ fire.gate[1].result
    /\ fire.gate[1].path = "/usr/sbin/sshd"
    /\ fire.events = <<>>

\* The interception points the kinds of a mask need.
NeededPoints(mask) == {PointOfKind(k) : k \in mask \cap Kinds}

(***************************************************************************)
(* C11 as stated: a mask set unplants only points that were planted before *)
(* the call and that the wanted mask does not need, and plants only points *)
(* that were not planted before the call and that the wanted mask needs;   *)
(* so swapping one close bit for the other issues no call on close_jprobe. *)
(***************************************************************************)
C11_AsClaimed ==
    \A t \in Admins :
        (Done(t) /\ adm[t].op = "all_probes_param_set") =>
            \A c \in CallSet :
                /\ c.call = "unplant" =>
                     /\ c.point \in pre.planted
                     /\ c.point \notin NeededPoints(adm[t].wanted)
                /\ c.call = "plant" =>
                     /\ c.point \notin pre.planted
                     /\ c.point \in NeededPoints(adm[t].wanted)

(***************************************************************************)
(* C11 amended: a mask set issues calls for the delta of the bits only.    *)
(* With kept the bits set before and wanted, rem the bits set before and   *)
(* not wanted, add the bits wanted and not set before: an unplant call is  *)
(* issued only on a point that was planted, that a bit of rem needs and    *)
(* that no bit of kept needs; a plant call only on a point that a bit of   *)
(* add needs and that no bit of kept needs; no point is unplanted twice or *)
(* planted twice.  Swapping one close bit for the other unplants           *)
(* close_jprobe once and then plants it again, unless an earlier plant of  *)
(* the call failed.                                                        *)
(***************************************************************************)
C11_DeltaOnly ==
    \A t \in Admins :
        (Done(t) /\ adm[t].op = "all_probes_param_set") =>
            LET kept == pre.loaded \cap adm[t].wanted
                rem == pre.loaded \ adm[t].wanted
                add == (adm[t].wanted \cap Kinds) \ pre.loaded
                swap == /\ Cardinality(pre.loaded \cap CloseBits) = 1
                        /\ Cardinality(adm[t].wanted \cap CloseBits) = 1
                        /\ (kept \cap CloseBits) = {}
            IN  /\ adm[t].probes_to_remove = rem
                /\ adm[t].probes_to_add \cap Kinds = add
                /\ \A c \in CallSet :
                     /\ c.call = "unplant" =>
                          /\ c.point \in pre.planted
                          /\ c.point \in NeededPoints(rem) \ NeededPoints(kept)
                     /\ c.call = "plant" =>
                          c.point \in NeededPoints(add) \ NeededPoints(kept)
                /\ \A p \in Points :
                     /\ NumCalls("unplant", p) <= 1
                     /\ NumCalls("plant", p) <= 1
                /\ swap =>
                     /\ NumCalls("unplant", close_jprobe) = 1
                     /\ \/ NumCalls("plant", close_jprobe) = 1
                        \/ \E c \in CallSet : /\ c.call = "plant"
                                              /\ c.err # 0
                                              /\ c.point # close_jprobe

\* TCP_CONNECT kept, TCP_CLOSE swapped for UDP_CLOSE: the connect probe is
\* left alone, close_jprobe is unplanted and planted again.
C11_Witness ==
    \E t \in Admins :
        /\ Done(t)
        /\ adm[t].op = "all_probes_param_set"
        /\ pre.loaded = {PROBE_TCP_CONNECT, PROBE_TCP_CLOSE}
        /\ adm[t].wanted = {PROBE_TCP_CONNECT, PROBE_UDP_CLOSE}
        /\ NoPlantFailed
        /\ NumCalls("unplant", close_jprobe) = 1
        /\ NumCalls("plant", close_jprobe) = 1
        /\ NumCalls("unplant", stream_connect_kretprobe) = 0
        /\ NumCalls("plant", stream_connect_kretprobe) = 0
        /\ loaded_probes = adm[t].wanted

(***************************************************************************)
(* C12 as stated: when post_sys_accept runs while TCP_ACCEPT is clear in   *)
(* loaded_probes, it hands no event to the sink.                           *)
(***************************************************************************)
C12_AsClaimed ==
    [][(/\ fire.pc = "return"
        /\ fire.hook = accept_kretprobe
        /\ fire'.pc = "end"
        /\ PROBE_TCP_ACCEPT \notin loaded_probes)
          => fire'.events = <<>>]_vars

(***************************************************************************)
(* C12 amended: post_sys_accept does not look at loaded_probes.  Whatever  *)
(* the mask is, it emits an event iff the descriptor resolves, sk is not   *)
(* NULL, the family is AF_INET or AF_INET6, the protocol is TCP, the path  *)
(* resolves and the whitelist does not list it.  What keeps an accept      *)
(* firing from happening while TCP_ACCEPT is clear is the registry: an     *)
(* invocation of the accept probe is dispatched with the bit clear only    *)
(* while a registry operation is between its plant of accept_kretprobe and *)
(* the setting of the bit, or between the clearing of the bit and its      *)
(* unplant of accept_kretprobe.                                            *)
(***************************************************************************)
AcceptWindow ==
    \E t \in HookAdmins :
        /\ probe_lock
        /\ accept_kretprobe \in planted
        /\ \/ /\ adm[t].pc = "plant"
              /\ adm[t].sub = "set"
              /\ PlantOrder[adm[t].i].bit = PROBE_TCP_ACCEPT
           \/ /\ adm[t].pc = "unplant"
              /\ adm[t].sub = "call"
              /\ PROBE_TCP_ACCEPT \in adm[t].removed_probes

C12_AcceptIgnoresMask ==
    [][/\ (/\ fire.pc = "idle"
           /\ fire'.pc = "return"
           /\ fire'.hook = accept_kretprobe
           /\ PROBE_TCP_ACCEPT \notin loaded_probes) => AcceptWindow
       /\ (/\ fire.pc = "return"
           /\ fire.hook = accept_kretprobe
           /\ fire'.pc = "end")
            => LET c == fire'.ctx
               IN  (fire'.events # <<>>) <=>
                      /\ c.sock # "NULL"
                      /\ c.sk
                      /\ c.family \in IPFamilies
                      /\ c.protocol = "IPPROTO_TCP"
                      /\ c.path # "NULL"
                      /\ ~c.listed]_vars

\* An accept invocation that has emitted its event while the single-probe
\* setter has cleared TCP_ACCEPT and has not yet unplanted accept_kretprobe.
C12_Witness ==
    /\ fire.pc = "end"
    /\ fire.hook = accept_kretprobe
    /\ Len(fire.events) = 1
    /\ fire.events[1].action = "ACTION_ACCEPT"
    /\ PROBE_TCP_ACCEPT \notin loaded_probes
    /\ AcceptWindow
    /\ \E t \in HookAdmins : adm[t].pc = "unplant"

(***************************************************************************)
(* C13: an invocation of pre_sys_close emits a TCP close only if it read   *)
(* TCP_CLOSE as set, the protocol is TCP and the destination port is not   *)
(* 0; a UDP close only if it read UDP_CLOSE as set, the protocol is UDP    *)
(* and the source port is not 0.  So a socket of the other protocol gives  *)
(* no event when only one close bit is read as set, and an unresolved      *)
(* descriptor, a NULL sk and a family other than AF_INET and AF_INET6 give *)
(* no event and no call of the whitelist gate.                             *)
(***************************************************************************)
C13_CloseFilters ==
    fire.hook = close_jprobe =>
        LET c == fire.ctx
        IN  /\ \A e \in EventSet :
                 /\ e.protocol = "PROTO_TCP" =>
                      /\ fire.seen_tcp = "set"
                      /\ c.protocol = "IPPROTO_TCP"
                      /\ c.dport # 0
                 /\ e.protocol = "PROTO_UDP" =>
                      /\ fire.seen_udp = "set"
                      /\ c.protocol = "IPPROTO_UDP"
                      /\ c.sport # 0
                 /\ e.protocol \in {"PROTO_TCP", "PROTO_UDP"}
            /\ (fire.seen_tcp = "clear" /\ c.protocol = "IPPROTO_TCP")
                 => fire.events = <<>>
            /\ (fire.seen_udp \in {"clear", "unread"} /\ c.protocol = "IPPROTO_UDP")
                 => fire.events = <<>>
            /\ (fire.pc = "end" /\ (c.sock = "NULL" \/ ~c.sk
                                    \/ c.family \notin IPFamilies))
                 => (fire.events = <<>> /\ fire.gate = <<>>)

\* Only UDP_CLOSE is active and read as set; the close of a connected and
\* bound TCP socket of an executable that is not whitelisted gives no event.
C13_Witness ==
    /\ fire.pc = "end"
    /\ fire.hook = close_jprobe
    /\ loaded_probes \cap CloseBits = Bit(PROBE_UDP_CLOSE)
    /\ fire.seen_tcp = "clear"
    /\ fire.seen_udp = "set"
    /\ fire.ctx.protocol = "IPPROTO_TCP"
    /\ fire.ctx.family = "AF_INET6"
    /\ fire.ctx.dport # 0
    /\ fire.ctx.sport # 0
    /\ fire.ctx.path = "/usr/bin/nc"
    /\ fire.events = <<>>
    /\ fire.gate = <<>>

(***************************************************************************)
(* C14: an invocation of a kretprobe (stream connect, datagram connect,    *)
(* accept, bind) that has ended has emitted an event iff the socket is not *)
(* NULL, its sk is not NULL, the family is AF_INET or AF_INET6, the        *)
(* protocol is the one of the probe, the path resolves and the whitelist   *)
(* does not list it; it emits at most one event, which carries the         *)
(* protocol and action of the probe: (TCP, CONNECT), (UDP, CONNECT),       *)
(* (TCP, ACCEPT), (UDP, BIND).  In every other case the invocation ends    *)
(* with no event.                                                          *)
(***************************************************************************)
ClaimedProtocol(h) ==
    IF h \in {stream_connect_kretprobe, accept_kretprobe}
    THEN "IPPROTO_TCP" ELSE "IPPROTO_UDP"

ClaimedPair(h) ==
    CASE h = stream_connect_kretprobe -> <<"PROTO_TCP", "ACTION_CONNECT">>
      [] h = dgram_connect_kretprobe -> <<"PROTO_UDP", "ACTION_CONNECT">>
      [] h = accept_kretprobe -> <<"PROTO_TCP", "ACTION_ACCEPT">>
      [] h = bind_kretprobe -> <<"PROTO_UDP", "ACTION_BIND">>

C14_EntryReturnEvents ==
    (fire.pc = "end" /\ fire.hook \in Points \ {close_jprobe}) =>
        LET c == fire.ctx
            h == fire.hook
        IN  /\ Len(fire.events) <= 1
            /\ (fire.events # <<>>) <=>
                  /\ c.sock # "NULL"
                  /\ c.sk
                  /\ c.family \in IPFamilies
                  /\ c.protocol = ClaimedProtocol(h)
                  /\ c.path # "NULL"
                  /\ ~c.listed
            /\ \A e \in EventSet :
                 /\ <<e.protocol, e.action>> = ClaimedPair(h)
                 /\ e.path = c.path
                 /\ e.family = c.family

\* A TCP connect on an AF_INET socket by an executable that is not
\* whitelisted: one event with action CONNECT and protocol TCP.
C14_Witness ==
    /\ fire.pc = "end"
    /\ fire.hook = stream_connect_kretprobe
    /\ fire.ctx.family = "AF_INET"
    /\ fire.ctx.protocol = "IPPROTO_TCP"
    /\ ~fire.ctx.listed
    /\ Len(fire.events) = 1
    /\ fire.events[1].action = "ACTION_CONNECT"
    /\ fire.events[1].protocol = "PROTO_TCP"
    /\ fire.events[1].family = "AF_INET"

(***************************************************************************)
(* C15: plant_probes handles the requested bits in the order TCP_CONNECT,  *)
(* TCP_ACCEPT, TCP_CLOSE, UDP_CONNECT, UDP_BIND, UDP_CLOSE and returns at  *)
(* the first plant that fails.  When a setter returns an error, the failed *)
(* plant is its last call and the only failed one, it was issued once, and *)
(* loaded_probes is the mask before the call, minus the bits the mask set  *)
(* removed, plus the requested bits that come before the failing kind in   *)
(* that order; no requested bit from the failing kind on is set, and no    *)
(* plant call was issued for a later kind.  The plant calls of every       *)
(* operation are issued in that order, and a setter returns an error iff   *)
(* one of its plant calls failed.                                          *)
(***************************************************************************)
ClaimedOrder ==
    << PROBE_TCP_CONNECT, PROBE_TCP_ACCEPT, PROBE_TCP_CLOSE,
       PROBE_UDP_CONNECT, PROBE_UDP_BIND, PROBE_UDP_CLOSE >>

ClaimedPos(k) == CHOOSE j \in DOMAIN ClaimedOrder : ClaimedOrder[j] = k

\* The probe kind of a logged plant call.
KindOfCall(c) == CHOOSE k \in Kinds : c.bits = Bit(k)

PlantFailure(t) ==
    /\ Done(t)
    /\ adm[t].op \in {"all_probes_param_set", "one_probe_param_set"}
    /\ adm[t].ret < 0

C15_StopAtFirstFailure ==
    \A t \in Admins :
        /\ (Done(t) /\ adm[t].op \in {"all_probes_param_set", "one_probe_param_set"})
             => ((adm[t].ret < 0) <=> ~NoPlantFailed)
        /\ InCS(t) =>
             \A j \in DOMAIN calls, k \in DOMAIN calls :
                (j < k /\ calls[j].call = "plant" /\ calls[k].call = "plant")
                  => ClaimedPos(KindOfCall(calls[j])) < ClaimedPos(KindOfCall(calls[k]))
        /\ PlantFailure(t) =>
             LET last == calls[Len(calls)]
                 failing == KindOfCall(last)
                 removed == IF adm[t].op = "all_probes_param_set"
                            THEN adm[t].probes_to_remove ELSE {}
                 requested == adm[t].new_probes \cap Kinds
                 before == {b \in requested : ClaimedPos(b) < ClaimedPos(failing)}
             IN  /\ last.call = "plant"
                 /\ last.err # 0
                 /\ \A j \in 1..(Len(calls) - 1) : calls[j].err = 0
                 /\ failing \in requested
                 /\ NumCalls("plant", last.point) = 1
                 /\ last.point \notin planted
                 /\ loaded_probes = (pre.loaded \ removed) \cup before
                 /\ (requested \ before) \cap loaded_probes = {}
                 /\ NeededPoints(before) \subseteq planted

\* A mask set that removes TCP_ACCEPT and adds TCP_CONNECT, UDP_CONNECT and
\* UDP_BIND, with the datagram connect plant failing: TCP_ACCEPT stays
\* removed, TCP_CONNECT is set, UDP_CONNECT and UDP_BIND are not.
C15_Witness ==
    \E t \in Admins :
        /\ PlantFailure(t)
        /\ pre.loaded = {PROBE_TCP_ACCEPT, PROBE_TCP_CLOSE}
        /\ adm[t].wanted = {PROBE_TCP_CONNECT, PROBE_TCP_CLOSE,
                            PROBE_UDP_CONNECT, PROBE_UDP_BIND}
        /\ calls[Len(calls)].point = dgram_connect_kretprobe
        /\ loaded_probes = {PROBE_TCP_CONNECT, PROBE_TCP_CLOSE}
        /\ NumCalls("plant", bind_kretprobe) = 0
        /\ accept_kretprobe \notin planted

(***************************************************************************)
(* C16: every plant call is issued on a point that is not planted and      *)
(* every unplant call on a point that is planted, whatever the sequence of *)
(* handlers and whichever plant calls fail.  A single-probe setter called  *)
(* with 1 while its bit is set, or with 0 while its bit is clear, issues   *)
(* no call, leaves loaded_probes and the planted points as they were and   *)
(* returns 0.                                                              *)
(***************************************************************************)
OneProbeNoChange(t) ==
    /\ Done(t)
    /\ adm[t].op = "one_probe_param_set"
    /\ \/ adm[t].value # 0 /\ adm[t].probe \subseteq pre.loaded
       \/ adm[t].value = 0 /\ (adm[t].probe \cap pre.loaded) = {}

C16_NoRedundantCalls ==
    /\ \A c \in CallSet :
         /\ c.call = "plant" => ~c.was
         /\ c.call = "unplant" => c.was
    /\ \A t \in Admins :
         OneProbeNoChange(t) =>
            /\ calls = <<>>
            /\ loaded_probes = pre.loaded
            /\ planted = pre.planted
            /\ adm[t].ret = 0

\* udp_close is set to 1 while UDP_CLOSE is already set.
C16_Witness ==
    \E t \in Admins :
        /\ OneProbeNoChange(t)
        /\ adm[t].value = 1
        /\ adm[t].probe = Bit(PROBE_UDP_CLOSE)
        /\ PROBE_UDP_CLOSE \in loaded_probes
        /\ close_jprobe \in planted
        /\ calls = <<>>

(***************************************************************************)
(* C17: in every reachable state, the states inside a registry operation   *)
(* included, each probe kind that is set in loaded_probes has its point    *)
(* planted: plant_probes sets a bit after its plant call succeeded, and    *)
(* unplant_probes clears the bits before its first unplant call.           *)
(***************************************************************************)
C17_BitImpliesPlanted ==
    /\ \A k \in loaded_probes \cap Kinds : PointOfKind(k) \in planted
    /\ \A c \in CallSet :
         c.call = "unplant" => \A k \in c.mask \cap Kinds : PointOfKind(k) # c.point

\* Inside unplant_probes: TCP_ACCEPT is already clear and accept_kretprobe
\* is still planted, while stream_connect_kretprobe has just been unplanted.
C17_Witness ==
    \E t \in Admins :
        /\ adm[t].pc = "unplant"
        /\ adm[t].sub = "call"
        /\ {PROBE_TCP_CONNECT, PROBE_TCP_ACCEPT} \subseteq adm[t].removed_probes
        /\ PROBE_TCP_ACCEPT \notin loaded_probes
        /\ accept_kretprobe \in planted
        /\ stream_connect_kretprobe \notin planted
        /\ NumCalls("unplant", stream_connect_kretprobe) = 1

(***************************************************************************)
(* C18: loaded_probes never holds a bit outside the six probe kinds,       *)
(* whatever mask the mask setter is given.  No plant or unplant call is    *)
(* issued for a bit beyond the six kinds; such bits cause no error; and    *)
(* without a failed plant the mask set leaves loaded_probes equal to the   *)
(* wanted mask restricted to the six kinds and returns 0.                  *)
(***************************************************************************)
WideMaskSet(t) ==
    /\ Done(t)
    /\ adm[t].op = "all_probes_param_set"
    /\ (adm[t].wanted \ Kinds) # {}

C18_OnlyKindBits ==
    /\ loaded_probes \subseteq Kinds
    /\ \A c \in CallSet : c.bits # {} /\ c.bits \subseteq Kinds
    /\ \A t \in Admins :
         WideMaskSet(t) =>
            /\ adm[t].probes_to_remove = pre.loaded \ adm[t].wanted
            /\ (adm[t].ret < 0) <=> ~NoPlantFailed
            /\ NoPlantFailed =>
                 /\ loaded_probes = adm[t].wanted \cap Kinds
                 /\ adm[t].ret = 0
                 /\ planted = NeededPoints(adm[t].wanted)

\* The mask set is given TCP_ACCEPT, UDP_BIND and a bit beyond the six
\* kinds while TCP_CONNECT and UDP_BIND are set.
C18_Witness ==
    \E t \in Admins :
        /\ WideMaskSet(t)
        /\ pre.loaded = {PROBE_TCP_CONNECT, PROBE_UDP_BIND}
        /\ adm[t].wanted = {PROBE_TCP_ACCEPT, PROBE_UDP_BIND, PROBE_UDP_CLOSE + 1}
        /\ (PROBE_UDP_CLOSE + 1) \in adm[t].probes_to_add
        /\ Len(calls) = 2
        /\ adm[t].ret = 0
        /\ loaded_probes = {PROBE_TCP_ACCEPT, PROBE_UDP_BIND}

(***************************************************************************)
(* C19: the socket references of a hook invocation are balanced.  An       *)
(* invocation takes at most one reference and never releases more than it  *)
(* took; when it has ended it has released what it took, whether its       *)
(* filters passed or not and whether an event was emitted, suppressed by   *)
(* the whitelist or dropped for an unresolved path.  The connect probes    *)
(* take none.  post_sys_accept and pre_sys_close take one iff the          *)
(* descriptor resolves.  pre_sys_bind takes one iff it resolves the        *)
(* descriptor: then post_sys_bind runs and releases it; when pre_sys_bind  *)
(* does not resolve it, no reference is held and post_sys_bind does not    *)
(* run.                                                                    *)
(***************************************************************************)
Resolved(c) == IF c.sock # "NULL" THEN 1 ELSE 0

C19_RefsBalanced ==
    /\ fire.lookups \in {0, 1}
    /\ fire.puts <= fire.lookups
    /\ fire.pc = "end" => fire.puts = fire.lookups
    /\ fire.hook \in {stream_connect_kretprobe, dgram_connect_kretprobe}
         => fire.lookups = 0
    /\ (fire.hook \in {accept_kretprobe, close_jprobe} /\ fire.pc = "end")
         => fire.lookups = Resolved(fire.ctx)
    /\ fire.hook = bind_kretprobe =>
         /\ fire.pc = "return" =>
              (fire.lookups = 1 /\ fire.puts = 0 /\ fire.sock # "NULL")
         /\ (fire.pc = "end" /\ fire.returned) =>
              (fire.lookups = 1 /\ fire.puts = 1)
         /\ (fire.pc = "end" /\ ~fire.returned) =>
              (fire.lookups = 0 /\ fire.sock = "NULL")

\* A bind by a whitelisted executable: the reference pre_sys_bind took has
\* been released by post_sys_bind, and the event was suppressed.
C19_Witness ==
    /\ fire.pc = "end"
    /\ fire.hook = bind_kretprobe
    /\ fire.returned
    /\ fire.lookups = 1
    /\ fire.puts = 1
    /\ Len(fire.gate) = 1
    /\ fire.gate[1].result
    /\ fire.events = <<>>

(***************************************************************************)
(* C20: every event handed to the sink and every call of the whitelist     *)
(* gate has family AF_INET or AF_INET6 and addresses that are not NULL:    *)
(* each callback tests the family before it calls log_if_not_whitelisted,  *)
(* so the `default` branch of its switch, which leaves both addresses      *)
(* NULL, is not taken from any hook.                                       *)
(***************************************************************************)
GateSet == {fire.gate[j] : j \in DOMAIN fire.gate}

C20_IPFamilyOnly ==
    /\ \A e \in EventSet :
         /\ e.family \in IPFamilies
         /\ e.src_ip # "NULL"
         /\ e.dst_ip # "NULL"
    /\ \A g \in GateSet :
         /\ g.family \in IPFamilies
         /\ g.ip # "NULL"
    /\ (fire.pc = "end" /\ fire.ctx.family \notin IPFamilies)
         => (fire.events = <<>> /\ fire.gate = <<>>)

\* A bind on a UDP socket of another family by an executable that is not
\* whitelisted: post_sys_bind ran and neither the gate nor the sink was
\* called.
C20_Witness ==
    /\ fire.pc = "end"
    /\ fire.hook = bind_kretprobe
    /\ fire.returned
    /\ fire.ctx.sk
    /\ fire.ctx.family = "AF_UNIX"
    /\ fire.ctx.protocol = "IPPROTO_UDP"
    /\ fire.ctx.path = "/usr/bin/nc"
    /\ fire.gate = <<>>
    /\ fire.events = <<>>
=============================================================================
